---- MODULE Spec2Model ----
(***************************************************************************)
(* Pedigree graph engine of trout-tree (src/app.py): the ancestor walk     *)
(* build_family_tree, the descendant walk build_full_descendant_tree, the  *)
(* two graph flatteners add_nodes_edges / add_descendants_to_graph and the *)
(* request handler index() that selects them by tree_type.                 *)
(*                                                                         *)
(* Python values are represented as follows.                               *)
(*   dict            a function; {} is the empty function <<>>             *)
(*   None (a tree)   <<>> : the code only tests such values for truthiness *)
(*                   (app.py:100 is the one identity test, on a value that *)
(*                   is never an empty dict), and {} is falsy like None    *)
(*   None (an id)    0 : the code tests parent ids for truthiness only     *)
(*                   (app.py:109,111); real ids start at 1 (app.py:58)     *)
(*   a call          a record [exc, val]: the exception raised ("" when    *)
(*                   the call returned) and the value returned             *)
(***************************************************************************)
EXTENDS Integers, Sequences, FiniteSets, Bags, TLC

\* ---------------------------------------------------------------- bounds
MaxId == 3
MaxLinks == 3

Ids == 1..MaxId

None == << >>
NoId == 0
EmptyDict == << >>

\* The interpreter's recursion limit, scaled down: deeper than any chain of
\* distinct individuals of the bounded populations, so that only an unbounded
\* recursion reaches it.
RecursionLimit == MaxId + 3

Returned(v) == [exc |-> "", val |-> v]
Raised(e) == [exc |-> e, val |-> None]

\* dict.get(key) with the default None
Get(dict, key) == IF key \in DOMAIN dict THEN dict[key] ELSE None

\* ------------------------------------------------------------ populations
\* A trout record of the API: id, coi and the list of parent references.
Trout(i, c, ps) == [id |-> i, coi |-> c, parents |-> [k \in 1..Len(ps) |-> [tokenId |-> ps[k]]]]

\* The ids a record or a request may name: MaxId + 1 is never an individual.
RefIds == 1..(MaxId + 1)

ParentLists == {<< >>} \cup {<<a>> : a \in RefIds} \cup {<<a, b>> : a \in RefIds, b \in RefIds}

RECURSIVE Links(_, _)
Links(f, S) == IF S = {} THEN 0
               ELSE LET i == CHOOSE j \in S : TRUE IN Len(f[i]) + Links(f, S \ {i})

\* The parent lists of the individuals present; an id outside the domain is
\* not in the population, so a reference to it dangles.
Shapes == {f \in UNION {[S -> ParentLists] : S \in SUBSET Ids} : Links(f, DOMAIN f) <= MaxLinks}

\* The recorded coefficients are opaque to app.py: one value per individual,
\* distinct from every other, from every id and from every level.
CoiOf(i) == 2 * MaxId + 1 + i

MkPopulation(f) == [i \in DOMAIN f |-> Trout(i, CoiOf(i), f[i])]

\* The diamond pedigree: 1, 2 founders; 3, 4 children of 1, 2; 5 child of 3, 4.
DiamondShape == (1 :> << >>) @@ (2 :> << >>) @@ (3 :> <<1, 2>>) @@ (4 :> <<1, 2>>) @@ (5 :> <<3, 4>>)

Populations == {MkPopulation(f) : f \in Shapes \cup {DiamondShape}}


\* ------------------------------------------------------------ app.py:85-93
fetch_parent(d, child_id) ==
  LET trout == Get(d, child_id) IN
  IF trout # None
  THEN LET ps == trout.parents
           left_parent_id == IF Len(ps) > 0 THEN ps[1].tokenId ELSE NoId
           right_parent_id == IF Len(ps) > 0 /\ Len(ps) > 1 THEN ps[2].tokenId ELSE NoId
       IN <<trout.id, trout.coi, left_parent_id, right_parent_id>>
  ELSE None

\* ------------------------------------------- inbreeding coefficient (spec 4.4)
\* The calculator is not part of app.py, which reads its result as the coi of
\* the API's records; it is modelled from the specification: a dynamic program
\* in topological order over the whole parent relation, M the ancestor
\* multisets of the individuals processed so far.
LinkedParents(d, x) == {fetch_parent(d, x)[k] : k \in {3, 4}} \ {NoId}

Contribution(M, p) == IF p = NoId THEN EmptyBag ELSE SetToBag({p}) (+) M[p]

RECURSIVE CoefficientPass(_, _)
CoefficientPass(d, M) ==
  LET ready == {x \in DOMAIN d \ DOMAIN M : LinkedParents(d, x) \subseteq DOMAIN M} IN
  IF DOMAIN M = DOMAIN d
  THEN Returned([x \in DOMAIN d |-> BagCardinality(M[x]) - Cardinality(BagToSet(M[x]))])
  ELSE IF ready = {} THEN Raised("CyclicPedigree")
  ELSE CoefficientPass(d, [x \in ready |-> Contribution(M, fetch_parent(d, x)[3])
                                            (+) Contribution(M, fetch_parent(d, x)[4])] @@ M)

CoefficientTable(d) == CoefficientPass(d, EmptyDict)

\* The populations the calculator accepts (the data model's invariant: every
\* parent reference names an individual, and no individual is its own
\* ancestor), each record carrying its computed coefficient.
CoefPopulations ==
  {[i \in DOMAIN d |-> [d[i] EXCEPT !.coi = CoefficientTable(d).val[i]]] :
     d \in {p \in {MkPopulation(f) : f \in Shapes \cup {DiamondShape}} :
              /\ \A x \in DOMAIN p : LinkedParents(p, x) \subseteq DOMAIN p
              /\ CoefficientTable(p).exc = ""}}

\* ----------------------------------------------------------- app.py:95-114
RECURSIVE build_family_tree(_, _, _)

\* Faulty variants of the walk; the properties below tell each from the walk:
\*   "left_only"    the right parent is forgotten
\*   "capped"       a depth cap of MaxId cuts the walk off silently
\*   "strict"       a parent that is not in the population fails the whole walk
\*   "double_step"  a parent is put two levels above its child
build_family_tree_variant(d, id, level, v) ==
  IF v = "capped" /\ level >= MaxId THEN Returned(None)
  ELSE IF level > RecursionLimit THEN Raised("RecursionError")
  ELSE
  LET trout_info == fetch_parent(d, id) IN
  IF trout_info = None THEN Returned(None)
  ELSE
  LET left_parent_id == trout_info[3]
      right_parent_id == IF v = "left_only" THEN NoId ELSE trout_info[4]
      step == IF v = "double_step" THEN 2 ELSE 1
      l == IF left_parent_id # NoId THEN build_family_tree(d, left_parent_id, level + step) ELSE Returned(None)
  IN IF l.exc # "" THEN l
     ELSE
     LET r == IF right_parent_id # NoId THEN build_family_tree(d, right_parent_id, level + step) ELSE Returned(None)
     IN IF r.exc # "" THEN r
        ELSE IF v = "strict" /\ \/ (left_parent_id # NoId /\ l.val = None)
                                \/ (right_parent_id # NoId /\ r.val = None)
        THEN Returned(None)
        ELSE
        LET children == (IF left_parent_id # NoId THEN "left" :> l.val ELSE EmptyDict)
                        @@ (IF right_parent_id # NoId THEN "right" :> r.val ELSE EmptyDict)
        IN Returned(trout_info[1] :> [id |-> trout_info[1], coi |-> trout_info[2],
                                      level |-> level, children |-> children])

build_family_tree_left_only(d, id, level) == build_family_tree_variant(d, id, level, "left_only")
build_family_tree_capped(d, id, level) == build_family_tree_variant(d, id, level, "capped")
build_family_tree_strict(d, id, level) == build_family_tree_variant(d, id, level, "strict")
build_family_tree_double_step(d, id, level) == build_family_tree_variant(d, id, level, "double_step")

\* level is also the depth of the Python call stack of the walk.
build_family_tree(d, id, level) ==
  IF level > RecursionLimit THEN Raised("RecursionError")
  ELSE
  LET trout_info == fetch_parent(d, id) IN
  IF trout_info = None THEN Returned(None)
  ELSE
  LET left_parent_id == trout_info[3]
      right_parent_id == trout_info[4]
      l == IF left_parent_id # NoId THEN build_family_tree(d, left_parent_id, level + 1) ELSE Returned(None)
  IN IF l.exc # "" THEN l
     ELSE
     LET r == IF right_parent_id # NoId THEN build_family_tree(d, right_parent_id, level + 1) ELSE Returned(None)
     IN IF r.exc # "" THEN r
        ELSE
        LET children == (IF left_parent_id # NoId THEN "left" :> l.val ELSE EmptyDict)
                        @@ (IF right_parent_id # NoId THEN "right" :> r.val ELSE EmptyDict)
        IN Returned(trout_info[1] :> [id |-> trout_info[1], coi |-> trout_info[2],
                                      level |-> level, children |-> children])

\* ------------------------------------------------------- networkx.DiGraph
EmptyGraph == [nodes |-> EmptyDict, edges |-> {}]

\* add_node(n, **attrs): creates the node or updates its attributes
add_node(g, n, attrs) == [g EXCEPT !.nodes = (n :> (attrs @@ Get(g.nodes, n))) @@ g.nodes]

\* add_edge(u, v): creates the missing end points without attributes
add_edge(g, u, v) ==
  LET g1 == IF u \in DOMAIN g.nodes THEN g ELSE add_node(g, u, EmptyDict)
      g2 == IF v \in DOMAIN g1.nodes THEN g1 ELSE add_node(g1, v, EmptyDict)
  IN [g2 EXCEPT !.edges = @ \cup {<<u, v>>}]

\* ---------------------------------------------------------- app.py:116-127
Sides == <<"left", "right">>

RECURSIVE add_nodes_edges(_, _, _)
RECURSIVE add_sides(_, _, _, _)
RECURSIVE add_parents(_, _, _, _, _)

\* the loop with the edge left in child -> parent order
add_parents_unreversed(g, node, level, parent_side, keys) ==
  IF keys = {} THEN g
  ELSE LET parent_id == CHOOSE k \in keys : \A j \in keys : k <= j
           parent_data == parent_side[parent_id]
           g1 == IF parent_data # None
                 THEN add_nodes_edges(
                        add_edge(add_node(g, parent_id,
                                          [level |-> level - 1, inbreeding |-> parent_data.coi]),
                                 node.id, parent_id),
                        parent_data, level - 1)
                 ELSE g
       IN add_parents(g1, node, level, parent_side, keys \ {parent_id})

\* the loop over parent_side.items(), keys is what is left to visit
add_parents(g, node, level, parent_side, keys) ==
  IF keys = {} THEN g
  ELSE LET parent_id == CHOOSE k \in keys : \A j \in keys : k <= j
           parent_data == parent_side[parent_id]
           g1 == IF parent_data # None
                 THEN add_nodes_edges(
                        add_edge(add_node(g, parent_id,
                                          [level |-> level - 1, inbreeding |-> parent_data.coi]),
                                 parent_id, node.id),
                        parent_data, level - 1)
                 ELSE g
       IN add_parents(g1, node, level, parent_side, keys \ {parent_id})

\* the loop over the sides, from side number k on
add_sides(g, node, level, k) ==
  IF k > Len(Sides) THEN g
  ELSE LET parent_side == Get(node.children, Sides[k])
           g1 == IF parent_side # None
                 THEN add_parents(g, node, level, parent_side, DOMAIN parent_side)
                 ELSE g
       IN add_sides(g1, node, level, k + 1)

\* the node's level taken for its coefficient
add_nodes_edges_level(g, node, level) ==
  add_sides(add_node(g, node.id, [level |-> level, inbreeding |-> node.level]), node, level, 1)

add_nodes_edges(g, node, level) ==
  add_sides(add_node(g, node.id, [level |-> level, inbreeding |-> node.coi]), node, level, 1)

\* ---------------------------------------------------------- app.py:129-135
fetch_direct_descendants(d, parent_id) ==
  {[id |-> id, coi |-> d[id].coi] :
     id \in {i \in DOMAIN d :
               /\ Len(d[i].parents) > 0
               /\ \E k \in 1..Len(d[i].parents) : d[i].parents[k].tokenId = parent_id}}

\* ---------------------------------------------------------- app.py:137-148
\* depth is the depth of the Python call stack of the walk.
RECURSIVE build_full_descendant_tree(_, _, _)
RECURSIVE build_descendants(_, _, _, _)

\* the loop over direct_descendants, todo is what is left to visit
build_descendants(d, todo, depth, descendant_tree) ==
  IF todo = {} THEN Returned(descendant_tree)
  ELSE LET descendant == CHOOSE x \in todo : \A y \in todo : x.id <= y.id
           sub == build_full_descendant_tree(d, descendant.id, depth + 1)
       IN IF sub.exc # "" THEN sub
          ELSE build_descendants(d, todo \ {descendant}, depth,
                 (descendant.id :> [coi |-> descendant.coi, descendants |-> sub.val])
                 @@ descendant_tree)

build_full_descendant_tree(d, id, depth) ==
  IF depth > RecursionLimit THEN Raised("RecursionError")
  ELSE build_descendants(d, fetch_direct_descendants(d, id), depth, EmptyDict)

\* ---------------------------------------------------------- app.py:150-157
RECURSIVE add_descendants_to_graph(_, _, _, _)
add_descendants_to_graph(g, parent_id, descendant_tree, keys) ==
  IF keys = {} THEN g
  ELSE LET child_id == CHOOSE k \in keys : \A j \in keys : k <= j
           child_info == descendant_tree[child_id]
           g1 == add_edge(add_node(g, child_id,
                                   [label |-> <<"Trout #", child_id>>, inbreeding |-> child_info.coi]),
                          parent_id, child_id)
           g2 == IF child_info.descendants # EmptyDict
                 THEN add_descendants_to_graph(g1, child_id, child_info.descendants,
                                               DOMAIN child_info.descendants)
                 ELSE g1
       IN add_descendants_to_graph(g2, parent_id, descendant_tree, keys \ {child_id})

VARIABLES data, trout_id, tree_type, family_tree, descendant_tree, G, outcome

vars == <<data, trout_id, tree_type, family_tree, descendant_tree, G, outcome>>

\* The ids a request may name: those of the population and the unused ones.
RequestIds(d) == RefIds \cup DOMAIN d

TypeOK ==
  /\ data \in Populations \cup CoefPopulations
  /\ trout_id \in RequestIds(data) \cup {NoId}
  /\ tree_type \in {"ancestors", "descendants", "full_tree"}
  /\ outcome \in {"", "page", "500", "graph", "TypeError", "RecursionError"}

Init ==
  /\ data \in Populations
  /\ trout_id = NoId
  /\ tree_type = "full_tree"
  /\ family_tree = None
  /\ descendant_tree = EmptyDict
  /\ G = EmptyGraph
  /\ outcome = ""

\* ---------------------------------------------------------- app.py:164-272
\* app.py:186-187 and 194-195: the ancestor half of a request, applied to g.
\* [exc, tree, g]: subscripting the None of an unknown root is a TypeError.
Ancestors(d, id, g) ==
  LET built == build_family_tree(d, id, 0) IN
  IF built.exc # "" THEN [exc |-> built.exc, tree |-> None, g |-> g]
  ELSE IF built.val = None THEN [exc |-> "TypeError", tree |-> None, g |-> g]
  ELSE [exc |-> "", tree |-> built.val, g |-> add_nodes_edges(g, built.val[id], 0)]

\* app.py:190-191 and 196-197: the descendant half of a request, applied to g.
Descendants(d, id, g) ==
  LET built == build_full_descendant_tree(d, id, 0) IN
  IF built.exc # "" THEN [exc |-> built.exc, tree |-> EmptyDict, g |-> g]
  ELSE [exc |-> "", tree |-> built.val,
        g |-> add_descendants_to_graph(g, id, built.val, DOMAIN built.val)]

\* app.py:166-168: the API did not answer with status 200
IndexApiError ==
  /\ outcome = ""
  /\ outcome' = "500"
  /\ UNCHANGED <<data, trout_id, tree_type, family_tree, descendant_tree, G>>

\* app.py:172-176, 272: a GET request renders the page without a tree
IndexGet ==
  /\ outcome = ""
  /\ trout_id' = NoId
  /\ tree_type' = "full_tree"
  /\ family_tree' = None
  /\ descendant_tree' = EmptyDict
  /\ G' = EmptyGraph
  /\ outcome' = "page"
  /\ UNCHANGED data

\* app.py:184-187
IndexAncestors ==
  \E id \in RequestIds(data) :
    LET a == Ancestors(data, id, EmptyGraph) IN
    /\ outcome = ""
    /\ trout_id' = id
    /\ tree_type' = "ancestors"
    /\ family_tree' = a.tree
    /\ descendant_tree' = EmptyDict
    /\ G' = a.g
    /\ outcome' = IF a.exc # "" THEN a.exc ELSE "graph"
    /\ UNCHANGED data

\* app.py:188-191
IndexDescendants ==
  \E id \in RequestIds(data) :
    LET b == Descendants(data, id, EmptyGraph) IN
    /\ outcome = ""
    /\ trout_id' = id
    /\ tree_type' = "descendants"
    /\ family_tree' = None
    /\ descendant_tree' = b.tree
    /\ G' = b.g
    /\ outcome' = IF b.exc # "" THEN b.exc ELSE "graph"
    /\ UNCHANGED data

\* app.py:192-197
IndexFullTree ==
  \E id \in RequestIds(data) :
    LET a == Ancestors(data, id, EmptyGraph)
        b == Descendants(data, id, a.g)
    IN
    /\ outcome = ""
    /\ trout_id' = id
    /\ tree_type' = "full_tree"
    /\ family_tree' = a.tree
    /\ descendant_tree' = IF a.exc # "" THEN EmptyDict ELSE b.tree
    /\ G' = IF a.exc # "" THEN a.g ELSE b.g
    /\ outcome' = IF a.exc # "" THEN a.exc ELSE IF b.exc # "" THEN b.exc ELSE "graph"
    /\ UNCHANGED data

\* The response has been sent: app.run(threaded=False) serves one request at a
\* time, and the handler's locals end with it.
Respond ==
  /\ outcome # ""
  /\ trout_id' = NoId
  /\ tree_type' = "full_tree"
  /\ family_tree' = None
  /\ descendant_tree' = EmptyDict
  /\ G' = EmptyGraph
  /\ outcome' = ""
  /\ UNCHANGED data

Next ==
  \/ Respond
  \/ IndexApiError
  \/ IndexGet
  \/ IndexAncestors
  \/ IndexDescendants
  \/ IndexFullTree

Spec == Init /\ [][Next]_vars

\* The same server over a population whose coi fields the calculator produced.
InitCoef ==
  /\ data \in CoefPopulations
  /\ trout_id = NoId
  /\ tree_type = "full_tree"
  /\ family_tree = None
  /\ descendant_tree = EmptyDict
  /\ G = EmptyGraph
  /\ outcome = ""

SpecCoef == InitCoef /\ [][Next]_vars

\* ================================================================ properties
\* The parent relation of a population, stated independently of the walks.
ParentIds(d, x) == IF x \in DOMAIN d THEN LinkedParents(d, x) ELSE {}

RecordedParents(d, x) ==
  IF x \in DOMAIN d THEN {d[x].parents[k].tokenId : k \in 1..Len(d[x].parents)} ELSE {}

ChildIds(d, x) == {c \in DOMAIN d : x \in RecordedParents(d, c)}

\* least set containing front and closed under the step relation
RECURSIVE Closure(_, _, _)
Closure(d, up, seen) ==
  LET next == UNION {IF up THEN ParentIds(d, x) ELSE ChildIds(d, x) : x \in seen} IN
  IF next \subseteq seen THEN seen ELSE Closure(d, up, seen \cup next)

\* the ids reached from x by one or more parent links / child links
AncestorIds(d, x) == Closure(d, TRUE, ParentIds(d, x))
DescendantIds(d, x) == Closure(d, FALSE, ChildIds(d, x))

Acyclic(d) == \A x \in DOMAIN d : x \notin AncestorIds(d, x)

\* a walk from x meets an individual that is its own ancestor / descendant
ReachesCycleUp(d, x) == \E y \in {x} \cup AncestorIds(d, x) : y \in AncestorIds(d, y)
ReachesCycleDown(d, x) == \E y \in {x} \cup DescendantIds(d, x) : y \in DescendantIds(d, y)

IsDiamond == DOMAIN data = DOMAIN DiamondShape /\ \A i \in DOMAIN data : \A k \in 1..2 :
               /\ Len(data[i].parents) = Len(DiamondShape[i])
               /\ k <= Len(DiamondShape[i]) => data[i].parents[k].tokenId = DiamondShape[i][k]

Requested == outcome \in {"graph", "TypeError", "RecursionError"}

RECURSIVE EdgeClosure(_, _)
EdgeClosure(E, seen) ==
  LET next == {e[2] : e \in {f \in E : f[1] \in seen}} IN
  IF next \subseteq seen THEN seen ELSE EdgeClosure(E, seen \cup next)

NoDirectedCycle(g) ==
  \A n \in DOMAIN g.nodes : n \notin EdgeClosure(g.edges, {e[2] : e \in {f \in g.edges : f[1] = n}})

\* C1: over an acyclic population, the ancestor graph of an existing root r has
\* as nodes exactly r and the individuals reachable from r through left/right
\* parent links, each id once; the diamond rooted at 5 has exactly the nodes 1..5.
C1_AncestorNodeSet ==
  (tree_type = "ancestors" /\ Requested /\ Acyclic(data) /\ trout_id \in DOMAIN data)
  => /\ outcome = "graph"
     /\ DOMAIN G.nodes = {trout_id} \cup (AncestorIds(data, trout_id) \cap DOMAIN data)
     /\ (IsDiamond /\ trout_id = 5) => (DOMAIN G.nodes = 1..5 /\ Cardinality(DOMAIN G.nodes) = 5)

C1_Witness ==
  /\ tree_type = "ancestors" /\ outcome = "graph"
  /\ IsDiamond /\ trout_id = 5
  /\ DOMAIN G.nodes = 1..5

\* C2: in every mode the graph handed on by the assembly has no directed cycle,
\* and every edge (a, b) of it runs from a recorded parent a of b to b.
C2_AcyclicParentToChild ==
  outcome = "graph"
  => /\ NoDirectedCycle(G)
     /\ \A e \in G.edges : e[1] \in RecordedParents(data, e[2])

C2_Witness ==
  /\ outcome = "graph" /\ tree_type = "full_tree"
  /\ \E e \in G.edges : e[2] = trout_id
  /\ \E e \in G.edges : e[1] = trout_id

\* C3: a request for a root id that is not in the population ends in an error
\* in every mode and never hands a graph on.
C3_UnknownRootFails ==
  (Requested /\ trout_id \notin DOMAIN data) => outcome \in {"TypeError", "RecursionError"}

\* C4: a request whose walk reaches a cycle of the parent relation ends in the
\* failure the cycle causes (the walk's recursion is cut off with an error):
\* it neither goes on forever nor hands on a partial graph.
QueryReachesCycle ==
  \/ tree_type = "ancestors" /\ trout_id \in DOMAIN data /\ ReachesCycleUp(data, trout_id)
  \/ tree_type = "descendants" /\ ReachesCycleDown(data, trout_id)
  \/ tree_type = "full_tree" /\ trout_id \in DOMAIN data
     /\ (ReachesCycleUp(data, trout_id) \/ ReachesCycleDown(data, trout_id))

RECURSIVE AncestorMultiset(_, _)
AncestorMultiset(d, x) ==
  LET side(k) == IF Len(d[x].parents) >= k
                 THEN <<d[x].parents[k].tokenId>> \o AncestorMultiset(d, d[x].parents[k].tokenId)
                 ELSE << >>
  IN side(1) \o side(2)

MultisetExcess(m) == Len(m) - Cardinality({m[k] : k \in 1..Len(m)})

RECURSIVE AncestorDepths(_, _)
AncestorDepths(tree, n) ==
  UNION {(IF k = n THEN {tree[k].level} ELSE {})
         \cup UNION {AncestorDepths(tree[k].children[side], n) : side \in DOMAIN tree[k].children}
         : k \in DOMAIN tree}

RECURSIVE DescendantDepths(_, _, _)
DescendantDepths(tree, n, depth) ==
  UNION {(IF k = n THEN {depth} ELSE {}) \cup DescendantDepths(tree[k].descendants, n, depth + 1)
         : k \in DOMAIN tree}

C6_LevelsRelativeToRoot ==
  (outcome = "graph" /\ trout_id \in DOMAIN data)
  => \A n \in DOMAIN G.nodes :
       /\ "level" \in DOMAIN G.nodes[n]
       /\ n = trout_id => G.nodes[n].level = 0
       /\ AncestorDepths(family_tree, n) # {}
          => G.nodes[n].level <= 0 /\ (0 - G.nodes[n].level) \in AncestorDepths(family_tree, n)
       /\ DescendantDepths(descendant_tree, n, 1) # {}
          => G.nodes[n].level > 0 /\ G.nodes[n].level \in DescendantDepths(descendant_tree, n, 1)

\* C7: in every mode every node of the assembled graph, the queried root
\* included, has an inbreeding attribute equal to the coi recorded for its id.
C7_EveryNodeHasInbreeding ==
  (outcome = "graph" /\ trout_id \in DOMAIN data)
  => /\ trout_id \in DOMAIN G.nodes
     /\ \A n \in DOMAIN G.nodes :
          "inbreeding" \in DOMAIN G.nodes[n] /\ G.nodes[n].inbreeding = data[n].coi

\* C8: in descendants mode the graph of an existing root r has as nodes exactly
\* r and the individuals with r as a direct or indirect parent, and as edges
\* exactly the pairs (p, c) with p among them and c a direct child of p; a
\* root without children gives the single node r, no edge and no error.
C8_DescendantGraph ==
  (tree_type = "descendants" /\ Requested /\ trout_id \in DOMAIN data
     /\ ~ReachesCycleDown(data, trout_id))
  => LET members == {trout_id} \cup DescendantIds(data, trout_id) IN
     /\ outcome = "graph"
     /\ DOMAIN G.nodes = members
     /\ G.edges = {e \in members \X DOMAIN data : e[2] \in ChildIds(data, e[1])}

\* C9: a parent reference to an id that is not in the population does not fail
\* the ancestor query: no node and no edge is made for the id, and the other
\* parent branch of the individual is walked in full.
DanglingParents(d, x) == ParentIds(d, x) \ DOMAIN d

C9_MissingParentIsAbsentBranch ==
  (tree_type = "ancestors" /\ Requested /\ trout_id \in DOMAIN data
     /\ ~ReachesCycleUp(data, trout_id))
  => /\ outcome = "graph"
     /\ DOMAIN G.nodes \subseteq DOMAIN data
     /\ \A e \in G.edges : e[1] \in DOMAIN data /\ e[2] \in DOMAIN data
     /\ \A x \in DOMAIN G.nodes : \A q \in ParentIds(data, x) \cap DOMAIN data :
          /\ <<q, x>> \in G.edges
          /\ ({q} \cup (AncestorIds(data, q) \cap DOMAIN data)) \subseteq DOMAIN G.nodes

C9_Witness ==
  /\ tree_type = "ancestors" /\ outcome = "graph"
  /\ DanglingParents(data, trout_id) # {}
  /\ \E q \in ParentIds(data, trout_id) \cap DOMAIN data :
       /\ <<q, trout_id>> \in G.edges
       /\ ParentIds(data, q) # {}
       /\ ParentIds(data, q) \subseteq DOMAIN G.nodes

\* C10: over an acyclic population both unbounded walks terminate for every
\* root id, and along every path of the ancestor tree the level grows by
\* exactly 1 per step, so that no id occurs twice on a root-to-founder path.
RECURSIVE PathLevelsOK(_, _, _)
PathLevelsOK(tree, level, path) ==
  \A k \in DOMAIN tree :
    /\ tree[k].id = k
    /\ tree[k].level = level
    /\ k \notin path
    /\ \A side \in DOMAIN tree[k].children :
         PathLevelsOK(tree[k].children[side], level + 1, path \cup {k})

RECURSIVE TreeHeight(_)
TreeHeight(tree) ==
  IF DOMAIN tree = {} THEN 0
  ELSE LET k == CHOOSE j \in DOMAIN tree : TRUE
           hs == {TreeHeight(tree[k].children[side]) : side \in DOMAIN tree[k].children}
       IN 1 + (IF hs = {} THEN 0 ELSE CHOOSE h \in hs : \A i \in hs : i <= h)

C10_WalksTerminate ==
  (Requested /\ Acyclic(data))
  => /\ outcome # "RecursionError"
     /\ PathLevelsOK(family_tree, 0, {})

C10_Witness ==
  /\ outcome = "graph" /\ tree_type = "full_tree" /\ Acyclic(data)
  /\ TreeHeight(family_tree) >= 2
  /\ descendant_tree # EmptyDict

====
